---- MODULE Spec2Model ----
(***************************************************************************)
(* Model of BusBoardingSequenceGenerator                                   *)
(* (src/src/boarding_sequence_generator.py) and of the /api/generate       *)
(* handler of the web front end (src/web_ui/app.py).                       *)
(*                                                                         *)
(* A Python str is modelled as a sequence of one-character strings, so     *)
(* that strip, split, the digit search and int() are computed character by *)
(* character.                                                              *)
(***************************************************************************)
EXTENDS Integers, Sequences, FiniteSets, TLC

VARIABLES
    bookings,   \* self.bookings: sequence of Booking records
    outcome,    \* how the last call ended: "none", "ok", "FileNotFoundError", "Exception"
    sequence,   \* value returned by the last generate_boarding_sequence call
    input,      \* argument of the last load call
    op,         \* the last call made on the generator
    seat,       \* argument of parse_seat_distance
    distance,   \* value returned by the last parse_seat_distance call
    exported,   \* lines of the file written by export_to_file, <<>> while there is none
    details,    \* value returned by the last get_boarding_details call
    web         \* the /api/generate requests being handled by the web front end

vars == <<bookings, outcome, sequence, input, op, seat, distance, exported, details, web>>

----------------------------------------------------------------------------
(* Bounds of the model *)

\* longest seat label handed to parse_seat_distance on its own
MaxSeatLen == 3
\* most bookings in a collection whose order is generated (SpecOrder)
MaxBookings == 3
\* most records / lines in one load when loads follow one another (Spec)
MaxLoad == 2

----------------------------------------------------------------------------
(* Characters and strings *)

Digits == {"0", "1", "2", "3", "4", "5", "6", "7", "8", "9"}

\* str.isspace() characters that occur in the modelled inputs
Whitespace == {" ", "\t", "\n"}

DigitValue(c) ==
    CASE c = "0" -> 0 [] c = "1" -> 1 [] c = "2" -> 2 [] c = "3" -> 3
      [] c = "4" -> 4 [] c = "5" -> 5 [] c = "6" -> 6 [] c = "7" -> 7
      [] c = "8" -> 8 [] c = "9" -> 9

\* all strings over alphabet of length at most n
StringsUpTo(alphabet, n) == UNION {[1..k -> alphabet] : k \in 0..n}

\* all sequences over S of length at most n
SeqsUpTo(S, n) == UNION {[1..k -> S] : k \in 0..n}

\* value of a non-empty run of decimal digits, as int() computes it
RECURSIVE DigitsToInt(_)
DigitsToInt(ds) ==
    IF ds = <<>> THEN 0
    ELSE 10 * DigitsToInt(SubSeq(ds, 1, Len(ds) - 1)) + DigitValue(ds[Len(ds)])

\* str.strip(): drop leading and trailing whitespace
RECURSIVE LStrip(_)
LStrip(s) ==
    IF s # <<>> /\ Head(s) \in Whitespace THEN LStrip(Tail(s)) ELSE s

RECURSIVE RStrip(_)
RStrip(s) ==
    IF s # <<>> /\ s[Len(s)] \in Whitespace
    THEN RStrip(SubSeq(s, 1, Len(s) - 1))
    ELSE s

Strip(s) == RStrip(LStrip(s))

\* str.split(sep) for a one-character separator: always at least one field
RECURSIVE SplitFrom(_, _, _, _)
SplitFrom(s, sep, cur, acc) ==
    IF s = <<>> THEN Append(acc, cur)
    ELSE IF Head(s) = sep
         THEN SplitFrom(Tail(s), sep, <<>>, Append(acc, cur))
         ELSE SplitFrom(Tail(s), sep, Append(cur, Head(s)), acc)

Split(s, sep) == SplitFrom(s, sep, <<>>, <<>>)

\* the `in` operator on strings: pat occurs in s as a substring
Contains(s, pat) ==
    \E i \in 1..(Len(s) - Len(pat) + 1) : SubSeq(s, i, i + Len(pat) - 1) = pat

----------------------------------------------------------------------------
(* parse_seat_distance *)

\* re.search(r'(\d+)', seat): position of the first digit, 0 when no match
RECURSIVE SearchFrom(_, _)
SearchFrom(s, i) ==
    IF i > Len(s) THEN 0
    ELSE IF s[i] \in Digits THEN i
    ELSE SearchFrom(s, i + 1)

\* the greedy \d+ : last position of the digit run that starts at i
RECURSIVE RunEnd(_, _)
RunEnd(s, i) ==
    IF i < Len(s) /\ s[i + 1] \in Digits THEN RunEnd(s, i + 1) ELSE i

\* a plausible slip: re.match instead of re.search (anchored at the start)
SearchAnchored(s) == IF s # <<>> /\ s[1] \in Digits THEN 1 ELSE 0

Search(s) == SearchFrom(s, 1)

parse_seat_distance(s) ==
    LET start == Search(s) IN
    IF start # 0
    THEN DigitsToInt(SubSeq(s, start, RunEnd(s, start)))
    ELSE 0

----------------------------------------------------------------------------
(* int() on a str *)

\* body of an integer literal: digits, single underscores only between digits
IsIntBody(b) ==
    /\ b # <<>>
    /\ \A k \in 1..Len(b) : b[k] \in Digits \cup {"_"}
    /\ b[1] \in Digits /\ b[Len(b)] \in Digits
    /\ \A k \in 1..(Len(b) - 1) : ~(b[k] = "_" /\ b[k + 1] = "_")

Unsigned(t) == IF t # <<>> /\ t[1] \in {"+", "-"} THEN Tail(t) ELSE t

\* int(s) succeeds (no ValueError)
IsIntLiteral(s) == IsIntBody(Unsigned(Strip(s)))

IsDigitChar(c) == c \in Digits

\* int(s) for a string on which it succeeds
IntValue(s) ==
    LET t == Strip(s)
        v == DigitsToInt(SelectSeq(Unsigned(t), IsDigitChar))
    IN  IF t[1] = "-" THEN 0 - v ELSE v

----------------------------------------------------------------------------
(* Booking construction: lines 97-103 (and the same code at lines 73-79) *)

\* [seat.strip() for seat in seats_string.split(',')]
SeatsOf(seats_string) ==
    LET parts == Split(seats_string, ",")
    IN  [i \in 1..Len(parts) |-> Strip(parts[i])]

MaxOf(ds) == CHOOSE m \in {ds[i] : i \in 1..Len(ds)} : \A i \in 1..Len(ds) : ds[i] <= m

MinOf(ds) == CHOOSE m \in {ds[i] : i \in 1..Len(ds)} : \A i \in 1..Len(ds) : m <= ds[i]

\* a plausible slip suggested by the field's name: the minimum, not the maximum
ReduceMin(distances) == IF distances # <<>> THEN MinOf(distances) ELSE 0

\* max(distances) if distances else 0
Reduce(distances) == IF distances # <<>> THEN MaxOf(distances) ELSE 0

Booking(booking_id, seats, min_distance) ==
    [booking_id |-> booking_id, seats |-> seats, min_distance |-> min_distance]

MakeBooking(booking_id, seats_string) ==
    LET seats == SeatsOf(seats_string)
        distances == [i \in 1..Len(seats) |-> parse_seat_distance(seats[i])]
    IN  Booking(booking_id, seats, Reduce(distances))

----------------------------------------------------------------------------
(* load_bookings_from_data, load_bookings_from_file *)

\* a plausible slip: the collection of the previous load is kept
NotCleared(old) == old

\* self.bookings = []  at the head of both loaders
Cleared(old) == <<>>

\* the for loop of load_bookings_from_data
RECURSIVE DataLoop(_, _)
DataLoop(acc, booking_data) ==
    IF booking_data = <<>> THEN acc
    ELSE DataLoop(Append(acc, MakeBooking(Head(booking_data).booking_id,
                                          Head(booking_data).seats_string)),
                  Tail(booking_data))

load_bookings_from_data(old, booking_data) == DataLoop(Cleared(old), booking_data)

BookingIdToken == <<"B", "o", "o", "k", "i", "n", "g", "_", "I", "D">>

\* start_idx = 1 if lines and 'Booking_ID' in lines[0] else 0
StartIdx(lines) == IF lines # <<>> /\ Contains(lines[1], BookingIdToken) THEN 1 ELSE 0

\* a plausible slip: a line with fewer than two fields is an error
ShortLineRaises(acc, rest) == [bookings |-> acc, outcome |-> "Exception"]

\* int(parts[0]) raises ValueError: the loop is left with what was appended,
\* and the handler at lines 84-85 raises Exception
BadId(acc, rest) == [bookings |-> acc, outcome |-> "Exception"]

RECURSIVE FileLoop(_, _)

\* len(parts) < 2: nothing is done for the line
ShortLine(acc, rest) == FileLoop(acc, rest)

\* the for loop of load_bookings_from_file over lines[start_idx:]
FileLoop(acc, lines) ==
    IF lines = <<>> THEN [bookings |-> acc, outcome |-> "ok"]
    ELSE LET line == Strip(Head(lines))
             parts == Split(line, "\t")
         IN  IF line = <<>> THEN FileLoop(acc, Tail(lines))
             ELSE IF Len(parts) >= 2
                  THEN IF IsIntLiteral(parts[1])
                       THEN FileLoop(Append(acc, MakeBooking(IntValue(parts[1]), parts[2])),
                                     Tail(lines))
                       ELSE BadId(acc, Tail(lines))
                  ELSE ShortLine(acc, Tail(lines))

\* a plausible slip: the generic handler stands first and takes the
\* FileNotFoundError of open() as well
NotFoundAsGeneric(cleared) == [bookings |-> cleared, outcome |-> "Exception"]

\* except FileNotFoundError: raise FileNotFoundError(...)
NotFound(cleared) == [bookings |-> cleared, outcome |-> "FileNotFoundError"]

\* except Exception as e: raise Exception(...), for an error of open() or
\* readlines() other than FileNotFoundError
Unreadable(cleared) == [bookings |-> cleared, outcome |-> "Exception"]

\* file: [status: "absent" | "unreadable" | "ok", records: the lines read]
load_bookings_from_file(old, file) ==
    LET cleared == Cleared(old) IN
    CASE file.status = "absent" -> NotFound(cleared)
      [] file.status = "unreadable" -> Unreadable(cleared)
      [] OTHER ->
            FileLoop(cleared, SubSeq(file.records, StartIdx(file.records) + 1,
                                     Len(file.records)))

----------------------------------------------------------------------------
(* generate_boarding_sequence *)

\* a plausible slip: the sign of the distance is lost (nearest seat first)
SortKeyAscending(x) == <<x.min_distance, x.booking_id>>

\* a plausible slip: no tie-break on the identifier
SortKeyNoTieBreak(x) == <<0 - x.min_distance, 0>>

\* key=lambda x: (-x.min_distance, x.booking_id)
SortKey(x) == <<0 - x.min_distance, x.booking_id>>

\* tuple comparison k1 < k2
TupleLess(k1, k2) == k1[1] < k2[1] \/ (k1[1] = k2[1] /\ k1[2] < k2[2])

\* b goes behind every element whose key is not greater than its own
RECURSIVE InsertStable(_, _)
InsertStable(b, s) ==
    IF s = <<>> THEN <<b>>
    ELSE IF TupleLess(SortKey(b), SortKey(Head(s)))
         THEN <<b>> \o s
         ELSE <<Head(s)>> \o InsertStable(b, Tail(s))

\* sorted(self.bookings, key=...): a stable sort
RECURSIVE Sorted(_)
Sorted(s) ==
    IF s = <<>> THEN <<>>
    ELSE InsertStable(s[Len(s)], Sorted(SubSeq(s, 1, Len(s) - 1)))

\* a plausible slip: enumerate(sorted_bookings) without the start value 1
EnumerateFromZero(sorted_bookings) ==
    [i \in 1..Len(sorted_bookings) |-> <<i - 1, sorted_bookings[i].booking_id>>]

\* for i, booking in enumerate(sorted_bookings, 1): sequence.append((i, booking.booking_id))
Enumerate(sorted_bookings) ==
    [i \in 1..Len(sorted_bookings) |-> <<i, sorted_bookings[i].booking_id>>]

generate_boarding_sequence(bks) ==
    IF bks = <<>> THEN <<>> ELSE Enumerate(Sorted(bks))

\* a plausible slip: self.bookings.sort(key=...) sorts the collection in place
SortedInPlace(bks) == Sorted(bks)

\* self.bookings after the call: sorted() builds a new list and nothing is
\* assigned to self.bookings or to a booking
BookingsAfterGenerate(bks) == bks

----------------------------------------------------------------------------
(* Inputs *)

\* no request is being handled
NoRequests == <<>>

NoInput == [kind |-> "none", status |-> "none", records |-> <<>>]

Ids == {1, 2, 3}

\* "A1",  "A2,C1",  "B1, A3"
SeatStrings ==
    { <<"A", "1">>,
      <<"A", "2", ",", "C", "1">>,
      <<"B", "1", ",", " ", "A", "3">> }

\* the identifiers used where loads follow one another
LoadIds == {1, 2}

DataRecords(ids) == [booking_id : ids, seats_string : SeatStrings]

DataInputs(ids, n) ==
    {[kind |-> "data", status |-> "ok", records |-> d] : d \in SeqsUpTo(DataRecords(ids), n)}

\* "Booking_ID\tSeats", "1\tA1", "2\tA2,C1", "x\tA1", "A1", " ", "\tA1"
Lines ==
    { BookingIdToken \o <<"\t", "S", "e", "a", "t", "s">>,
      <<"1", "\t", "A", "1">>,
      <<"2", "\t", "A", "2", ",", "C", "1">>,
      <<"x", "\t", "A", "1">>,
      <<"A", "1">>,
      <<" ">>,
      <<"\t", "A", "1">> }

FileInputs(n) ==
    {[kind |-> "file", status |-> "absent", records |-> <<>>],
     [kind |-> "file", status |-> "unreadable", records |-> <<>>]}
    \cup {[kind |-> "file", status |-> "ok", records |-> l] : l \in SeqsUpTo(Lines, n)}

----------------------------------------------------------------------------
(* The generator: __init__, then any sequence of calls *)

Init ==
    /\ bookings = <<>>
    /\ outcome = "none"
    /\ sequence = <<>>
    /\ input = NoInput
    /\ op = "init"
    /\ seat = <<>>
    /\ distance = 0
    /\ exported = <<>>
    /\ details = <<>>
    /\ web = NoRequests

LoadBookingsFromData(in) ==
    /\ bookings' = load_bookings_from_data(bookings, in.records)
    /\ outcome' = "ok"
    /\ input' = in
    /\ op' = "load_data"
    /\ sequence' = <<>>
    /\ UNCHANGED <<seat, distance, exported, details, web>>

LoadBookingsFromFile(in) ==
    \E r \in {load_bookings_from_file(bookings, in)} :
    /\ bookings' = r.bookings
    /\ outcome' = r.outcome
    /\ input' = in
    /\ op' = "load_file"
    /\ sequence' = <<>>
    /\ UNCHANGED <<seat, distance, exported, details, web>>

GenerateBoardingSequence ==
    /\ sequence' = generate_boarding_sequence(bookings)
    /\ outcome' = "ok"
    /\ op' = "generate"
    /\ bookings' = BookingsAfterGenerate(bookings)
    /\ UNCHANGED <<input, seat, distance, exported, details, web>>

\* the arguments of the load calls
LoadDataInputs == DataInputs(LoadIds, MaxLoad)

LoadFileInputs == FileInputs(MaxLoad)

LoadData == \E in \in LoadDataInputs : LoadBookingsFromData(in)

LoadFile == \E in \in LoadFileInputs : LoadBookingsFromFile(in)

Next == LoadData \/ LoadFile \/ GenerateBoardingSequence

Spec == Init /\ [][Next]_vars

----------------------------------------------------------------------------
(* generate_boarding_sequence as a function of the loaded collection *)

OrderInputs == DataInputs(Ids, MaxBookings)

InitOrder ==
    /\ input \in OrderInputs
    /\ bookings = <<>>
    /\ outcome = "none"
    /\ sequence = <<>>
    /\ op = "init"
    /\ seat = <<>>
    /\ distance = 0
    /\ exported = <<>>
    /\ details = <<>>
    /\ web = NoRequests

LoadDrawnData == op = "init" /\ LoadBookingsFromData(input)

GenerateLoaded == op = "load_data" /\ GenerateBoardingSequence

NextOrder == LoadDrawnData \/ GenerateLoaded

SpecOrder == InitOrder /\ [][NextOrder]_vars

----------------------------------------------------------------------------
(* get_boarding_details, export_to_file *)

DigitChar(d) ==
    CASE d = 0 -> "0" [] d = 1 -> "1" [] d = 2 -> "2" [] d = 3 -> "3"
      [] d = 4 -> "4" [] d = 5 -> "5" [] d = 6 -> "6" [] d = 7 -> "7"
      [] d = 8 -> "8" [] d = 9 -> "9"

\* decimal digits of a natural number
RECURSIVE NatToStr(_)
NatToStr(n) ==
    IF n < 10 THEN <<DigitChar(n)>>
    ELSE Append(NatToStr(n \div 10), DigitChar(n % 10))

\* f"{n}" for an int
IntToStr(n) == IF n < 0 THEN <<"-">> \o NatToStr(0 - n) ELSE NatToStr(n)

\* file.write("Seq\tBooking_ID\n")
ExportHeader ==
    <<"S", "e", "q", "\t", "B", "o", "o", "k", "i", "n", "g", "_", "I", "D", "\n">>

\* a plausible slip: the two columns are written the other way round
ExportLineSwapped(seq_num, booking_id) ==
    IntToStr(booking_id) \o <<"\t">> \o IntToStr(seq_num) \o <<"\n">>

\* file.write(f"{seq_num}\t{booking_id}\n")
ExportLine(seq_num, booking_id) ==
    IntToStr(seq_num) \o <<"\t">> \o IntToStr(booking_id) \o <<"\n">>

\* the lines export_to_file writes to a file it could open
export_to_file(bks) ==
    LET seq == generate_boarding_sequence(bks)
    IN  <<ExportHeader>> \o [i \in 1..Len(seq) |-> ExportLine(seq[i][1], seq[i][2])]

\* booking_dict = {b.booking_id: b for b in self.bookings}: for an identifier
\* held more than once the last booking stays
BookingDict(bks, booking_id) ==
    LET last == CHOOSE i \in 1..Len(bks) :
                    /\ bks[i].booking_id = booking_id
                    /\ \A j \in (i + 1)..Len(bks) : bks[j].booking_id # booking_id
    IN  bks[last]

get_boarding_details(bks) ==
    LET seq == generate_boarding_sequence(bks)
    IN  [i \in 1..Len(seq) |->
            [sequence |-> seq[i][1],
             booking_id |-> seq[i][2],
             seats |-> BookingDict(bks, seq[i][2]).seats,
             furthest_seat_distance |-> BookingDict(bks, seq[i][2]).min_distance]]

GetBoardingDetails ==
    /\ details' = get_boarding_details(bookings)
    /\ outcome' = "ok"
    /\ op' = "details"
    /\ UNCHANGED <<bookings, sequence, input, seat, distance, exported, web>>

\* writable: open(output_path, 'w') succeeds; otherwise its OSError reaches
\* the caller and nothing is written
ExportToFile(writable) ==
    /\ exported' = IF writable THEN export_to_file(bookings) ELSE exported
    /\ outcome' = IF writable THEN "ok" ELSE "OSError"
    /\ op' = "export"
    /\ UNCHANGED <<bookings, sequence, input, seat, distance, details, web>>

----------------------------------------------------------------------------
(* The outputs as functions of the loaded collection *)

\* identifiers of one and several digits, and a negative one
OutputIds == {0 - 1, 7, 120}

OutputDataInputs == DataInputs(OutputIds, MaxBookings)

OutputFileInputs == FileInputs(MaxBookings)

InitOutput ==
    /\ (input \in OutputDataInputs \/ input \in OutputFileInputs)
    /\ bookings = <<>>
    /\ outcome = "none"
    /\ sequence = <<>>
    /\ op = "init"
    /\ seat = <<>>
    /\ distance = 0
    /\ exported = <<>>
    /\ details = <<>>
    /\ web = NoRequests

LoadGivenData == op = "init" /\ input.kind = "data" /\ LoadBookingsFromData(input)

LoadGivenFile == op = "init" /\ input.kind = "file" /\ LoadBookingsFromFile(input)

DetailsOfLoaded == op # "init" /\ GetBoardingDetails

ExportLoaded == op # "init" /\ \E writable \in BOOLEAN : ExportToFile(writable)

NextOutput == LoadGivenData \/ LoadGivenFile \/ DetailsOfLoaded \/ ExportLoaded

SpecOutput == InitOutput /\ [][NextOutput]_vars

----------------------------------------------------------------------------
(* web_ui/app.py: the /api/generate handler, one thread per request *)

Requests == {1, 2}

\* names tempfile.NamedTemporaryFile can hand out
TempNames == {1, 2}

\* str.lower() on the letters of the modelled file names
Lower(c) == CASE c = "T" -> "t" [] c = "X" -> "x" [] OTHER -> c

\* position of the last '.' of filename, 0 when there is none
RECURSIVE LastDot(_, _)
LastDot(filename, i) ==
    IF i = 0 THEN 0
    ELSE IF filename[i] = "." THEN i
    ELSE LastDot(filename, i - 1)

ALLOWED_EXTENSIONS ==
    { <<"t", "x", "t">>, <<"c", "s", "v">>, <<"t", "s", "v">> }

\* '.' in filename and filename.rsplit('.', 1)[1].lower() in ALLOWED_EXTENSIONS
allowed_file(filename) ==
    LET dot == LastDot(filename, Len(filename))
        ext == SubSeq(filename, dot + 1, Len(filename))
    IN  /\ dot # 0
        /\ [i \in 1..Len(ext) |-> Lower(ext[i])] \in ALLOWED_EXTENSIONS

\* a plausible slip: one module-level generator serves every request
SharedGenerator(r) == 1

\* generator = BusBoardingSequenceGenerator() inside the handler: the
\* generator of request r belongs to r alone
GeneratorOf(r) == r

NoFile == [exists |-> FALSE, lines |-> <<>>]

NoResponse == [status |-> 0, sequence |-> <<>>, details |-> <<>>, total_bookings |-> 0]

\* jsonify({'error': ...}), status
ErrorResponse(status) ==
    [status |-> status, sequence |-> <<>>, details |-> <<>>, total_bookings |-> 0]

\* what open(), readlines() find under a temporary name
TempFile(f) ==
    [kind |-> "file", status |-> IF f.exists THEN "ok" ELSE "absent", records |-> f.lines]

WebRequest(kind, filename, lines, entries) ==
    [kind |-> kind, filename |-> filename, lines |-> lines, entries |-> entries]

Entry(booking_id, seats) == [booking_id |-> booking_id, seats |-> seats]

\* request bodies: manual data of one and of two bookings, manual data with
\* a booking_id that is no integer, uploads "a.TXT" (one good row; a good row
\* and a row with a bad identifier), an upload "a.x", and a body without data
WebRequests ==
    { WebRequest("manual", <<>>, <<>>, <<Entry(<<"1">>, <<"A", "1">>)>>),
      WebRequest("manual", <<>>, <<>>,
                 <<Entry(<<"2">>, <<"A", "2", ",", "C", "1">>),
                   Entry(<<"1">>, <<"B", "1", ",", " ", "A", "3">>)>>),
      WebRequest("manual", <<>>, <<>>, <<Entry(<<"x">>, <<"A", "1">>)>>),
      WebRequest("file", <<"a", ".", "T", "X", "T">>,
                 <<<<"2", "\t", "A", "2", ",", "C", "1">>>>, <<>>),
      WebRequest("file", <<"a", ".", "T", "X", "T">>,
                 <<<<"1", "\t", "A", "1">>, <<"x", "\t", "A", "1">>>>, <<>>),
      WebRequest("file", <<"a", ".", "x">>, <<<<"1", "\t", "A", "1">>>>, <<>>),
      WebRequest("none", <<>>, <<>>, <<>>) }

InitWeb ==
    /\ \E reqs \in [Requests -> WebRequests] :
          web = [req |-> reqs,
                 pc |-> [r \in Requests |-> "start"],
                 gen |-> [g \in Requests |-> <<>>],
                 fs |-> [n \in TempNames |-> NoFile],
                 path |-> [r \in Requests |-> 0],
                 booking_data |-> [r \in Requests |-> <<>>],
                 err |-> [r \in Requests |-> FALSE],
                 seq |-> [r \in Requests |-> <<>>],
                 det |-> [r \in Requests |-> <<>>],
                 resp |-> [r \in Requests |-> NoResponse]]
    /\ bookings = <<>>
    /\ outcome = "none"
    /\ sequence = <<>>
    /\ input = NoInput
    /\ op = "init"
    /\ seat = <<>>
    /\ distance = 0
    /\ exported = <<>>
    /\ details = <<>>

notWeb == <<bookings, outcome, sequence, input, op, seat, distance, exported, details>>

\* line 37
WebConstruct(r) ==
    /\ web.pc[r] = "start"
    /\ web' = [web EXCEPT !.gen[GeneratorOf(r)] = <<>>, !.pc[r] = "route"]
    /\ UNCHANGED notWeb

\* lines 40-43, 54-58, 69-70: which branch the request takes
WebRoute(r) ==
    /\ web.pc[r] = "route"
    /\ LET q == web.req[r] IN
       IF q.kind = "file" /\ q.filename # <<>>
       THEN IF allowed_file(q.filename)
            THEN web' = [web EXCEPT !.pc[r] = "save"]
            ELSE web' = [web EXCEPT !.pc[r] = "done", !.resp[r] = ErrorResponse(400)]
       ELSE IF q.kind = "manual"
            THEN web' = [web EXCEPT !.pc[r] = "build"]
            ELSE web' = [web EXCEPT !.pc[r] = "done", !.resp[r] = ErrorResponse(400)]
    /\ UNCHANGED notWeb

\* lines 45-48: the upload is written to a temporary file of a fresh name
WebSaveUpload(r) ==
    /\ web.pc[r] = "save"
    /\ \E n \in TempNames :
          /\ ~web.fs[n].exists
          /\ web' = [web EXCEPT !.fs[n] = [exists |-> TRUE, lines |-> web.req[r].lines],
                                !.path[r] = n,
                                !.pc[r] = "load_file"]
    /\ UNCHANGED notWeb

\* line 51
WebLoadFile(r) ==
    /\ web.pc[r] = "load_file"
    /\ \E res \in {load_bookings_from_file(web.gen[GeneratorOf(r)],
                                           TempFile(web.fs[web.path[r]]))} :
          web' = [web EXCEPT !.gen[GeneratorOf(r)] = res.bookings,
                             !.err[r] = (res.outcome # "ok"),
                             !.pc[r] = "unlink"]
    /\ UNCHANGED notWeb

\* lines 52-53, and lines 83-84 when the load has raised
WebUnlink(r) ==
    /\ web.pc[r] = "unlink"
    /\ IF web.err[r]
       THEN web' = [web EXCEPT !.fs[web.path[r]] = NoFile,
                               !.pc[r] = "done", !.resp[r] = ErrorResponse(500)]
       ELSE web' = [web EXCEPT !.fs[web.path[r]] = NoFile, !.pc[r] = "generate"]
    /\ UNCHANGED notWeb

\* lines 59-65, and lines 83-84 when int(entry['booking_id']) raises
WebBuildData(r) ==
    /\ web.pc[r] = "build"
    /\ LET es == web.req[r].entries IN
       IF \A i \in 1..Len(es) : IsIntLiteral(es[i].booking_id)
       THEN web' = [web EXCEPT
                       !.booking_data[r] =
                           [i \in 1..Len(es) |->
                               [booking_id |-> IntValue(es[i].booking_id),
                                seats_string |-> es[i].seats]],
                       !.pc[r] = "load_data"]
       ELSE web' = [web EXCEPT !.pc[r] = "done", !.resp[r] = ErrorResponse(500)]
    /\ UNCHANGED notWeb

\* line 67
WebLoadData(r) ==
    /\ web.pc[r] = "load_data"
    /\ web' = [web EXCEPT
                  !.gen[GeneratorOf(r)] =
                      load_bookings_from_data(web.gen[GeneratorOf(r)], web.booking_data[r]),
                  !.pc[r] = "generate"]
    /\ UNCHANGED notWeb

\* line 73
WebGenerate(r) ==
    /\ web.pc[r] = "generate"
    /\ web' = [web EXCEPT
                  !.seq[r] = generate_boarding_sequence(web.gen[GeneratorOf(r)]),
                  !.pc[r] = "details"]
    /\ UNCHANGED notWeb

\* line 74
WebDetails(r) ==
    /\ web.pc[r] = "details"
    /\ web' = [web EXCEPT
                  !.det[r] = get_boarding_details(web.gen[GeneratorOf(r)]),
                  !.pc[r] = "respond"]
    /\ UNCHANGED notWeb

\* lines 76-81
WebRespond(r) ==
    /\ web.pc[r] = "respond"
    /\ web' = [web EXCEPT
                  !.resp[r] = [status |-> 200, sequence |-> web.seq[r],
                               details |-> web.det[r],
                               total_bookings |-> Len(web.seq[r])],
                  !.pc[r] = "done"]
    /\ UNCHANGED notWeb

NextWeb ==
    \E r \in Requests :
        \/ WebConstruct(r) \/ WebRoute(r) \/ WebSaveUpload(r) \/ WebLoadFile(r)
        \/ WebUnlink(r) \/ WebBuildData(r) \/ WebLoadData(r) \/ WebGenerate(r)
        \/ WebDetails(r) \/ WebRespond(r)

SpecWeb == InitWeb /\ [][NextWeb]_vars

----------------------------------------------------------------------------
(* parse_seat_distance as a function of its argument *)

SeatAlphabet == {"A", "B", "C", "X", "0", "1", "2", "3"}

SeatInputs == StringsUpTo(SeatAlphabet, MaxSeatLen)

InitParse ==
    /\ seat \in SeatInputs
    /\ distance = 0
    /\ exported = <<>>
    /\ details = <<>>
    /\ web = NoRequests
    /\ op = "init"
    /\ bookings = <<>>
    /\ outcome = "none"
    /\ sequence = <<>>
    /\ input = NoInput

ParseSeatDistance ==
    /\ op = "init"
    /\ op' = "parse"
    /\ distance' = parse_seat_distance(seat)
    /\ outcome' = "ok"
    /\ UNCHANGED <<bookings, sequence, input, seat, exported, details, web>>

NextParse == ParseSeatDistance

SpecParse == InitParse /\ [][NextParse]_vars

----------------------------------------------------------------------------
(* Claims about parse_seat_distance (SpecParse) *)

Letters == SeatAlphabet \ Digits

HasDigit(s) == \E k \in 1..Len(s) : s[k] \in Digits

\* s[i..j] is the first maximal run of decimal digits of s
IsFirstMaximalRun(s, i, j) ==
    /\ 1 <= i /\ i <= j /\ j <= Len(s)
    /\ \A k \in i..j : s[k] \in Digits
    /\ \A k \in 1..(i - 1) : s[k] \notin Digits
    /\ (j = Len(s) \/ s[j + 1] \notin Digits)

RECURSIVE Pow10(_)
Pow10(n) == IF n = 0 THEN 1 ELSE 10 * Pow10(n - 1)

\* decimal value of s[i..j] by positional weights
RECURSIVE PositionalValue(_, _, _)
PositionalValue(s, i, j) ==
    IF i > j THEN 0
    ELSE DigitValue(s[i]) * Pow10(j - i) + PositionalValue(s, i + 1, j)

IsInvalidLabel(s) ==
    \/ s = <<>>
    \/ \A k \in 1..Len(s) : s[k] \in Letters
    \/ \A k \in 1..Len(s) : s[k] \in Digits

\* C5: parse_seat_distance returns 0 for every invalid seat label: the empty
\* string, a letters-only label, and a digits-only label with no letter
\* prefix (test_parse_seat_distance_invalid).
C5_InvalidLabelsAreZero ==
    (op = "parse" /\ IsInvalidLabel(seat)) => distance = 0

----------------------------------------------------------------------------
(* Claims about generate_boarding_sequence (SpecOrder) *)

\* the permutations of 1..n
Perms(n) == {f \in [1..n -> 1..n] : \A i, j \in 1..n : f[i] = f[j] => i = j}

DistinctIds(bks) ==
    \A i, j \in 1..Len(bks) : bks[i].booking_id = bks[j].booking_id => i = j

\* a may stand before b in the boarding order
MayPrecede(a, b) ==
    \/ a.min_distance > b.min_distance
    \/ a.min_distance = b.min_distance /\ a.booking_id <= b.booking_id

\* C1: the returned order respects the sort key. The entries are the bookings
\* of the collection in some arrangement in which, whenever a stands before
\* b, priority(a) > priority(b), or the priorities are equal and
\* identifier(a) <= identifier(b).
C1_OrderRespectsSortKey ==
    op = "generate" =>
        /\ Len(sequence) = Len(bookings)
        /\ \E p \in Perms(Len(bookings)) :
              /\ \A i \in 1..Len(sequence) :
                     sequence[i][2] = bookings[p[i]].booking_id
              /\ \A i, j \in 1..Len(sequence) :
                     i < j => MayPrecede(bookings[p[i]], bookings[p[j]])

\* three bookings, loaded nearest first and with a tie given in descending
\* identifier order, have been put in boarding order
C1_Witness ==
    /\ op = "generate"
    /\ Len(bookings) = 3
    /\ bookings[1].min_distance < bookings[2].min_distance
    /\ bookings[2].min_distance = bookings[3].min_distance
    /\ bookings[2].booking_id > bookings[3].booking_id
    /\ sequence[1][2] = bookings[3].booking_id
    /\ sequence[3][2] = bookings[1].booking_id

Permuted(records, p) == [i \in 1..Len(records) |-> records[p[i]]]

\* C2: the order does not depend on the input order. With distinct
\* identifiers, loading any permutation of the loaded records and generating
\* returns the same list of (sequence number, identifier) pairs.
C2_InputOrderIndependent ==
    (op = "generate" /\ DistinctIds(bookings)) =>
        \A p \in Perms(Len(input.records)) :
            generate_boarding_sequence(
                load_bookings_from_data(<<>>, Permuted(input.records, p))) = sequence

\* three bookings with distinct identifiers, two of them tied on priority
\* and given in descending identifier order
C2_Witness ==
    /\ op = "generate"
    /\ Len(bookings) = 3
    /\ DistinctIds(bookings)
    /\ bookings[1].min_distance = bookings[3].min_distance
    /\ bookings[1].booking_id > bookings[3].booking_id
    /\ bookings[2].min_distance > bookings[1].min_distance

CountId(ids, id) == Cardinality({i \in 1..Len(ids) : ids[i] = id})

\* C3: for n bookings the result has exactly n entries, numbered 1, 2, ..., n
\* in output order, and its identifiers are the multiset of the identifiers
\* of the collection; for the empty collection the result is empty and the
\* call ends normally.
C3_SequenceNumbersAndIds ==
    op = "generate" =>
        /\ outcome = "ok"
        /\ Len(sequence) = Len(bookings)
        /\ \A i \in 1..Len(sequence) : sequence[i][1] = i
        /\ \A id \in Ids :
              CountId([i \in 1..Len(sequence) |-> sequence[i][2]], id)
                  = CountId([i \in 1..Len(bookings) |-> bookings[i].booking_id], id)
        /\ (bookings = <<>> => sequence = <<>>)

\* three bookings, two of which share an identifier, have been numbered
C3_Witness ==
    /\ op = "generate"
    /\ Len(bookings) = 3
    /\ bookings[1].booking_id = bookings[3].booking_id
    /\ bookings[2].booking_id # bookings[1].booking_id
    /\ Len(sequence) = 3

----------------------------------------------------------------------------
(* Claims about the loaders (Spec) *)

IsLoad == op \in {"load_data", "load_file"}

Distances(b) == {parse_seat_distance(b.seats[k]) : k \in 1..Len(b.seats)}

\* C6: the stored priority (min_distance) of every booking held after a load
\* is the maximum of parse_seat_distance over its seats, and the reduction
\* gives 0 for an empty seat list.
C6_PriorityIsMaxDistance ==
    /\ Reduce(<<>>) = 0
    /\ IsLoad =>
          \A i \in 1..Len(bookings) :
              IF bookings[i].seats = <<>>
              THEN bookings[i].min_distance = 0
              ELSE /\ bookings[i].min_distance \in Distances(bookings[i])
                   /\ \A d \in Distances(bookings[i]) : d <= bookings[i].min_distance

\* a booking of two seats, the second one further back, holds the second
\* seat's distance
C6_Witness ==
    /\ IsLoad
    /\ \E i \in 1..Len(bookings) :
          /\ Len(bookings[i].seats) = 2
          /\ parse_seat_distance(bookings[i].seats[1])
                 < parse_seat_distance(bookings[i].seats[2])
          /\ bookings[i].min_distance = parse_seat_distance(bookings[i].seats[2])

\* the lines of a read file behind the header
RecordLines(file) ==
    SubSeq(file.records, StartIdx(file.records) + 1, Len(file.records))

FieldsOf(line) == Split(line, "\t")

HasTwoFieldsStripped(line) == Len(FieldsOf(Strip(line))) >= 2

\* the records of a load that become bookings, as (identifier, seat list) pairs
Accepted(in) ==
    IF in.kind = "data"
    THEN [i \in 1..Len(in.records) |->
              <<in.records[i].booking_id, in.records[i].seats_string>>]
    ELSE LET ls == SelectSeq(RecordLines(in), HasTwoFieldsStripped)
         IN  [i \in 1..Len(ls) |->
                  <<IntValue(FieldsOf(Strip(ls[i]))[1]), FieldsOf(Strip(ls[i]))[2]>>]

\* C7: after each successful load, whatever was loaded before, the collection
\* holds exactly one booking per accepted record of that load, in input
\* order, and nothing else.
C7_LoadReplacesCollection ==
    (IsLoad /\ outcome = "ok") =>
        /\ Len(bookings) = Len(Accepted(input))
        /\ \A i \in 1..Len(bookings) :
              /\ bookings[i].booking_id = Accepted(input)[i][1]
              /\ bookings[i].seats = SeatsOf(Accepted(input)[i][2])

\* a successful load of a single record for identifier 2 holds exactly that
\* booking (every load state is entered from every other state)
C7_Witness ==
    /\ IsLoad /\ outcome = "ok"
    /\ Len(input.records) = 1
    /\ Len(bookings) = 1
    /\ bookings[1].booking_id = 2

\* C8: a load that fails leaves the collection cleared; it never holds the
\* bookings of the lines read before the failure.
C8_FailedLoadLeavesCleared ==
    (op = "load_file" /\ outcome # "ok") => bookings = <<>>

\* C9: when a record line has at least two tab-separated fields and its
\* identifier field is not an integer, the load fails with an error; the
\* line is never skipped.
C9_BadIdentifierFailsLoad ==
    (/\ op = "load_file"
     /\ input.status = "ok"
     /\ \E k \in 1..Len(RecordLines(input)) :
           /\ Len(FieldsOf(RecordLines(input)[k])) >= 2
           /\ ~IsIntLiteral(FieldsOf(RecordLines(input)[k])[1]))
    => outcome = "Exception"

HasTwoFields(line) == Len(FieldsOf(line)) >= 2

\* C10: record lines with fewer than two tab-separated fields, blank lines
\* among them, have no effect: the load ends as it does for the same record
\* lines without them, with the same bookings and the same outcome.
C10_ShortLinesSkipped ==
    (op = "load_file" /\ input.status = "ok") =>
        /\ [bookings |-> bookings, outcome |-> outcome]
               = FileLoop(<<>>, SelectSeq(RecordLines(input), HasTwoFields))
        /\ ((\A k \in 1..Len(RecordLines(input)) : ~HasTwoFields(RecordLines(input)[k]))
               => (outcome = "ok" /\ bookings = <<>>))

\* a one-field line followed by a well-formed line: the load succeeded with
\* the one booking of the second line
C10_Witness ==
    /\ op = "load_file" /\ outcome = "ok"
    /\ Len(input.records) = 2
    /\ input.records[1] = <<"A", "1">>
    /\ HasTwoFields(input.records[2])
    /\ Len(bookings) = 1

\* C11: loading from a file that does not exist ends in FileNotFoundError,
\* and every other failed load (unreadable file, malformed line) ends in a
\* different error: FileNotFoundError is raised if and only if the file is
\* absent.
C11_NotFoundIffAbsent ==
    op = "load_file" =>
        /\ (outcome = "FileNotFoundError" <=> input.status = "absent")
        /\ (input.status = "unreadable" => outcome = "Exception")
        /\ outcome \in {"ok", "FileNotFoundError", "Exception"}

\* a load from an absent file has ended in FileNotFoundError, with the
\* collection empty
C11_Witness ==
    /\ op = "load_file"
    /\ input.status = "absent"
    /\ outcome = "FileNotFoundError"
    /\ bookings = <<>>

\* C12: generate_boarding_sequence is a pure read of the booking collection.
\* A call leaves the collection as it was (length, order and every booking's
\* identifier, seats and priority), and a call that follows another one with
\* no load in between returns the same list.
C12_GenerateIsPureRead ==
    [][op' = "generate" =>
          /\ bookings' = bookings
          /\ (op = "generate" => sequence' = sequence)]_vars

\* a collection of two bookings held nearest first has been ordered: the
\* returned list starts with the second booking, the collection still with
\* the first
C12_Witness ==
    /\ op = "generate"
    /\ Len(bookings) = 2
    /\ bookings[1].min_distance < bookings[2].min_distance
    /\ bookings[1].booking_id # bookings[2].booking_id
    /\ sequence[1][2] = bookings[2].booking_id

----------------------------------------------------------------------------
(* Claims about the outputs (SpecOutput) *)

\* the tab-separated fields of a written line without its newline
ExportedFields(line) == Split(SubSeq(line, 1, Len(line) - 1), "\t")

IsPlainInt(f) ==
    /\ IsIntLiteral(f)
    /\ \A k \in 1..Len(f) : f[k] \in Digits \cup {"-"}

\* line reads <seq_num><TAB><booking_id><NEWLINE>
IsExportLine(line, seq_num, booking_id) ==
    /\ line # <<>>
    /\ line[Len(line)] = "\n"
    /\ Len(ExportedFields(line)) = 2
    /\ IsPlainInt(ExportedFields(line)[1])
    /\ IsPlainInt(ExportedFields(line)[2])
    /\ IntValue(ExportedFields(line)[1]) = seq_num
    /\ IntValue(ExportedFields(line)[2]) = booking_id

\* C13: export_to_file writes the header line Seq<TAB>Booking_ID and then one
\* line <sequenceNumber><TAB><identifier> per entry of
\* generate_boarding_sequence, in the same order; after a load from a
\* tabular file the second line carries sequence number 1 and the identifier
\* of a booking of greatest priority, the lowest identifier among equals.
C13_ExportWritesSequence ==
    (op = "export" /\ outcome = "ok") =>
        LET seq == generate_boarding_sequence(bookings) IN
        /\ Len(exported) = Len(seq) + 1
        /\ exported[1] = <<"S", "e", "q", "\t">> \o BookingIdToken \o <<"\n">>
        /\ \A i \in 1..Len(seq) : IsExportLine(exported[i + 1], seq[i][1], seq[i][2])
        /\ (input.kind = "file" /\ bookings # <<>>) =>
              \E k \in 1..Len(bookings) :
                  /\ \A j \in 1..Len(bookings) : MayPrecede(bookings[k], bookings[j])
                  /\ IsExportLine(exported[2], 1, bookings[k].booking_id)

\* a file with a header and the rows of bookings 1 (row 1) and 2 (row 2) has
\* been loaded and exported: the second line written is 1<TAB>2
C13_Witness ==
    /\ op = "export" /\ outcome = "ok"
    /\ input.kind = "file"
    /\ Len(input.records) = 3
    /\ Contains(input.records[1], BookingIdToken)
    /\ input.records[2] = <<"1", "\t", "A", "1">>
    /\ input.records[3] = <<"2", "\t", "A", "2", ",", "C", "1">>
    /\ exported = << <<"S", "e", "q", "\t">> \o BookingIdToken \o <<"\n">>,
                     <<"1", "\t", "2", "\n">>,
                     <<"2", "\t", "1", "\n">> >>

\* C14: for every booking collection, also one in which two bookings share an
\* identifier, entry i of get_boarding_details describes the booking at
\* position i of the sorted order: its sequence and booking_id are entry i
\* of generate_boarding_sequence, its seats and furthest_seat_distance are
\* those of that booking.
C14_DetailsDescribeSortedBookings ==
    op = "details" =>
        /\ Len(details) = Len(bookings)
        /\ \A i \in 1..Len(details) :
              /\ details[i].sequence = generate_boarding_sequence(bookings)[i][1]
              /\ details[i].booking_id = generate_boarding_sequence(bookings)[i][2]
              /\ details[i].seats = Sorted(bookings)[i].seats
              /\ details[i].furthest_seat_distance = Sorted(bookings)[i].min_distance

----------------------------------------------------------------------------
(* Claims about the web front end (SpecWeb) *)

\* the collection a generator holds after loading the data of request q alone
OwnBookings(q) ==
    IF q.kind = "file"
    THEN load_bookings_from_file(<<>>, [kind |-> "file", status |-> "ok",
                                        records |-> q.lines]).bookings
    ELSE load_bookings_from_data(<<>>,
             [i \in 1..Len(q.entries) |->
                 [booking_id |-> IntValue(q.entries[i].booking_id),
                  seats_string |-> q.entries[i].seats]])

\* the identifiers request q submits
OwnIds(q) == {OwnBookings(q)[i].booking_id : i \in 1..Len(OwnBookings(q))}

\* C15: concurrent /api/generate requests do not interfere. Under every
\* interleaving of two requests the sequence and the details returned for a
\* request are those of the bookings of that request alone, and no entry
\* carries an identifier submitted only by the other request.
C15_RequestsAreIsolated ==
    \A r \in Requests :
        (web # NoRequests /\ web.pc[r] = "done" /\ web.resp[r].status = 200) =>
            /\ web.resp[r].sequence = generate_boarding_sequence(OwnBookings(web.req[r]))
            /\ web.resp[r].details = get_boarding_details(OwnBookings(web.req[r]))
            /\ web.resp[r].total_bookings = Len(OwnBookings(web.req[r]))
            /\ \A i \in 1..Len(web.resp[r].sequence) :
                   web.resp[r].sequence[i][2] \in OwnIds(web.req[r])

\* request 1 (two bookings entered by hand) has been answered while request
\* 2 (an uploaded file with booking 2) is between its generate and details
\* calls with its own order
C15_Witness ==
    /\ web # NoRequests
    /\ web.pc[1] = "done"
    /\ web.resp[1].status = 200
    /\ web.resp[1].sequence = << <<1, 1>>, <<2, 2>> >>
    /\ web.req[2].kind = "file"
    /\ web.pc[2] = "details"
    /\ web.seq[2] = << <<1, 2>> >>

====
